---- MODULE Spec2Model ----
(***************************************************************************)
(* Model of the authorities registry of konnect                            *)
(* (identity/authorities/registry.go): NewRegistry, Register, Lookup, Get  *)
(* and Default, together with the discovery task that fills in the         *)
(* dynamic fields of a registration.                                       *)
(*                                                                         *)
(* Registrations are heap objects: regs[i] holds the static fields of the  *)
(* object with pointer i, dynamic[i] its lock protected fields, and the    *)
(* authorities map stores pointers (0 is the nil pointer).                 *)
(***************************************************************************)
EXTENDS Integers, Sequences, FiniteSets, TLC

VARIABLES
    confFile,          \* the registration conf: [status, entries]
    orig,              \* orig[i]: field values of object i when it was created
    regs,              \* regs[i]: static fields of *AuthorityRegistration i
    dynamic,           \* dynamic[i]: ready, authorizationEndpoint, validationKeys
    authorities,       \* Registry.authorities: map from ID to pointer
    defaultID,         \* Registry.defaultID
    defaultAuthority,  \* NewRegistry's local defaultAuthority (0 is nil)
    idx,               \* position of NewRegistry's range loop
    pc,                \* position of NewRegistry
    nrErr,             \* the error NewRegistry returned
    launched,          \* objects for which `go authority.Initialize` ran
    last,              \* result of the last call made on the registry
    rmutex,            \* Registry.mutex
    amutex,            \* amutex[i]: the mutex of registration i
    tpc,               \* tpc[t]: position of goroutine t inside its call
    tloc,              \* tloc[t]: arguments, locals and results of goroutine t
    dpc                \* dpc[i]: position of the discovery task of registration i

vars == <<confFile, orig, regs, dynamic, authorities, defaultID,
          defaultAuthority, idx, pc, nrErr, launched, last,
          rmutex, amutex, tpc, tloc, dpc>>

\* What the goroutines of the concurrent view add to the state.
goVars == <<rmutex, amutex, tpc, tloc, dpc>>

\* What only the one-owner view changes.
ownerVars == <<confFile, orig, defaultAuthority, idx, pc, nrErr, launched, last>>

----------------------------------------------------------------------------
(* Bounds *)

MaxEntries == 3
MaxObjects == 2
NumClients == 2

----------------------------------------------------------------------------
(* Values *)

AuthorityTypeOIDC == "oidc"
authorityDefaultScopes == <<"openid", "profile">>
authorityDefaultResponseType == "id_token"
authorityDefaultCodeChallengeMethod == "S256"
authorityDefaultIdentityClaimName == "sub"

NoErr == [kind |-> "nil", arg |-> ""]
ErrNoID == [kind |-> "no authority id", arg |-> ""]
ErrClientID == [kind |-> "invalid authority client_id", arg |-> ""]
ErrUnknownType(t) == [kind |-> "unknown authority type", arg |-> t]
ErrUnknownID(id) == [kind |-> "unknown authority id", arg |-> id]
ErrValidate == [kind |-> "validate", arg |-> ""]
ErrReadFile == [kind |-> "read file", arg |-> ""]
ErrUnmarshal == [kind |-> "unmarshal", arg |-> ""]

NilDetails == [nil |-> TRUE]

NotReady == [ready |-> FALSE, authorizationEndpoint |-> "", validationKeys |-> ""]

Entry(id, name, clientID, type, default, wellFormed) ==
    [ID |-> id, Name |-> name, AuthorityType |-> type,
     ClientID |-> clientID, ClientSecret |-> "", Insecure |-> FALSE,
     Default |-> default, Scopes |-> <<>>, ResponseType |-> "",
     CodeChallengeMethod |-> "", IdentityClaimName |-> "",
     wellFormed |-> wellFormed]

\* The entries a registration conf is made of: sound ones, one that takes
\* its ID from its name, ones Validate() rejects and ones Register() rejects.
LoadEntries ==
    {Entry(id, "", "c", AuthorityTypeOIDC, d, TRUE) : id \in {"a", "b"}, d \in BOOLEAN}
    \cup {Entry("", "a", "c", AuthorityTypeOIDC, d, TRUE) : d \in BOOLEAN}
    \cup {Entry("a", "", "c", AuthorityTypeOIDC, d, FALSE) : d \in BOOLEAN}
    \cup {Entry("", "", "c", AuthorityTypeOIDC, d, TRUE) : d \in BOOLEAN}
    \cup {Entry("b", "", "", AuthorityTypeOIDC, TRUE, TRUE),
          Entry("b", "", "c", "saml", TRUE, TRUE)}

\* The optional fields of a registration, left empty or given, in four
\* patterns that show every field both ways next to given and empty others.
Optional(n) ==
    [ClientSecret |-> IF n \in {2, 3} THEN "secret" ELSE "",
     Insecure |-> n \in {2, 4},
     Default |-> n \in {2, 4},
     Scopes |-> IF n \in {2, 3} THEN <<"email">> ELSE <<>>,
     ResponseType |-> IF n \in {2, 4} THEN "code" ELSE "",
     CodeChallengeMethod |-> IF n \in {2, 3} THEN "plain" ELSE "",
     IdentityClaimName |-> IF n \in {2, 4} THEN "email" ELSE ""]

Authority(id, name, clientID, type, n) ==
    [ID |-> id, Name |-> name, AuthorityType |-> type,
     ClientID |-> clientID, ClientSecret |-> Optional(n).ClientSecret,
     Insecure |-> Optional(n).Insecure, Default |-> Optional(n).Default,
     Scopes |-> Optional(n).Scopes, ResponseType |-> Optional(n).ResponseType,
     CodeChallengeMethod |-> Optional(n).CodeChallengeMethod,
     IdentityClaimName |-> Optional(n).IdentityClaimName,
     wellFormed |-> TRUE]

\* The registrations callers pass to Register(): ones it accepts, with and
\* without an ID, ones it rejects at each of its three checks, and ones
\* that fail more than one check.
RegisterEntries ==
    {Authority(id, "n", "c", AuthorityTypeOIDC, n) : id \in {"a", "b"}, n \in 1..4}
    \cup {Authority("", "a", "c", AuthorityTypeOIDC, n) : n \in 1..4}
    \cup {Authority("", "", "c", AuthorityTypeOIDC, n) : n \in 1..2}
    \cup {Authority(id, "a", "", AuthorityTypeOIDC, n) : id \in {"", "b"}, n \in 1..2}
    \cup {Authority(id, "a", "c", "saml", n) : id \in {"", "b"}, n \in 1..2}
    \cup {Authority("", "", "", AuthorityTypeOIDC, 1),
          Authority("", "", "c", "saml", 1),
          Authority("", "", "", "saml", 1),
          Authority("b", "a", "", "saml", 1)}

SeqsUpTo(S, n) == UNION {[1..k -> S] : k \in 0..n}

LookupIDs == {"", "a", "b", "z"}

----------------------------------------------------------------------------
(* AuthorityRegistration.Validate: the structural check of an entry *)

Validate(a) == IF a.wellFormed THEN NoErr ELSE ErrValidate

----------------------------------------------------------------------------
(* Registry.Register *)

\* Variant: an empty ResponseType is left empty.
RegisterFields_KeepsEmptyResponseType(a) ==
    LET a1 == IF a.ID = "" /\ a.Name # "" THEN [a EXCEPT !.ID = a.Name] ELSE a
        a2 == [a1 EXCEPT
                 !.Scopes = IF Len(@) = 0 THEN authorityDefaultScopes ELSE @,
                 !.CodeChallengeMethod =
                     IF @ = "" THEN authorityDefaultCodeChallengeMethod ELSE @,
                 !.IdentityClaimName =
                     IF @ = "" THEN authorityDefaultIdentityClaimName ELSE @]
    IN  IF a1.ID = "" THEN [err |-> ErrNoID, reg |-> a1]
        ELSE IF a1.ClientID = "" THEN [err |-> ErrClientID, reg |-> a1]
        ELSE IF a1.AuthorityType = AuthorityTypeOIDC THEN [err |-> NoErr, reg |-> a2]
        ELSE [err |-> ErrUnknownType(a1.AuthorityType), reg |-> a1]

\* Variant: an empty ID is not replaced by the Name.
RegisterFields_IgnoresName(a) ==
    LET a1 == a
        a2 == [a1 EXCEPT
                 !.Scopes = IF Len(@) = 0 THEN authorityDefaultScopes ELSE @,
                 !.ResponseType = IF @ = "" THEN authorityDefaultResponseType ELSE @,
                 !.CodeChallengeMethod =
                     IF @ = "" THEN authorityDefaultCodeChallengeMethod ELSE @,
                 !.IdentityClaimName =
                     IF @ = "" THEN authorityDefaultIdentityClaimName ELSE @]
    IN  IF a1.ID = "" THEN [err |-> ErrNoID, reg |-> a1]
        ELSE IF a1.ClientID = "" THEN [err |-> ErrClientID, reg |-> a1]
        ELSE IF a1.AuthorityType = AuthorityTypeOIDC THEN [err |-> NoErr, reg |-> a2]
        ELSE [err |-> ErrUnknownType(a1.AuthorityType), reg |-> a1]

\* Variant: the ClientID is checked before the ID.
RegisterFields_ClientIDFirst(a) ==
    LET a1 == IF a.ID = "" /\ a.Name # "" THEN [a EXCEPT !.ID = a.Name] ELSE a
        a2 == [a1 EXCEPT
                 !.Scopes = IF Len(@) = 0 THEN authorityDefaultScopes ELSE @,
                 !.ResponseType = IF @ = "" THEN authorityDefaultResponseType ELSE @,
                 !.CodeChallengeMethod =
                     IF @ = "" THEN authorityDefaultCodeChallengeMethod ELSE @,
                 !.IdentityClaimName =
                     IF @ = "" THEN authorityDefaultIdentityClaimName ELSE @]
    IN  IF a1.ClientID = "" THEN [err |-> ErrClientID, reg |-> a1]
        ELSE IF a1.ID = "" THEN [err |-> ErrNoID, reg |-> a1]
        ELSE IF a1.AuthorityType = AuthorityTypeOIDC THEN [err |-> NoErr, reg |-> a2]
        ELSE [err |-> ErrUnknownType(a1.AuthorityType), reg |-> a1]

\* Variant: an empty ClientID is accepted.
RegisterFields_NoClientIDCheck(a) ==
    LET a1 == IF a.ID = "" /\ a.Name # "" THEN [a EXCEPT !.ID = a.Name] ELSE a
        a2 == [a1 EXCEPT
                 !.Scopes = IF Len(@) = 0 THEN authorityDefaultScopes ELSE @,
                 !.ResponseType = IF @ = "" THEN authorityDefaultResponseType ELSE @,
                 !.CodeChallengeMethod =
                     IF @ = "" THEN authorityDefaultCodeChallengeMethod ELSE @,
                 !.IdentityClaimName =
                     IF @ = "" THEN authorityDefaultIdentityClaimName ELSE @]
    IN  IF a1.ID = "" THEN [err |-> ErrNoID, reg |-> a1]
        ELSE IF a1.AuthorityType = AuthorityTypeOIDC THEN [err |-> NoErr, reg |-> a2]
        ELSE [err |-> ErrUnknownType(a1.AuthorityType), reg |-> a1]

\* Variant: the error for an unknown type does not name the type.
RegisterFields_ErrorOmitsType(a) ==
    LET a1 == IF a.ID = "" /\ a.Name # "" THEN [a EXCEPT !.ID = a.Name] ELSE a
        a2 == [a1 EXCEPT
                 !.Scopes = IF Len(@) = 0 THEN authorityDefaultScopes ELSE @,
                 !.ResponseType = IF @ = "" THEN authorityDefaultResponseType ELSE @,
                 !.CodeChallengeMethod =
                     IF @ = "" THEN authorityDefaultCodeChallengeMethod ELSE @,
                 !.IdentityClaimName =
                     IF @ = "" THEN authorityDefaultIdentityClaimName ELSE @]
    IN  IF a1.ID = "" THEN [err |-> ErrNoID, reg |-> a1]
        ELSE IF a1.ClientID = "" THEN [err |-> ErrClientID, reg |-> a1]
        ELSE IF a1.AuthorityType = AuthorityTypeOIDC THEN [err |-> NoErr, reg |-> a2]
        ELSE [err |-> ErrUnknownType(""), reg |-> a1]

\* Lines 118-148: the checks and the defaulting, on the passed object.
RegisterFields(a) ==
    LET a1 == IF a.ID = "" /\ a.Name # "" THEN [a EXCEPT !.ID = a.Name] ELSE a
        a2 == [a1 EXCEPT
                 !.Scopes = IF Len(@) = 0 THEN authorityDefaultScopes ELSE @,
                 !.ResponseType = IF @ = "" THEN authorityDefaultResponseType ELSE @,
                 !.CodeChallengeMethod =
                     IF @ = "" THEN authorityDefaultCodeChallengeMethod ELSE @,
                 !.IdentityClaimName =
                     IF @ = "" THEN authorityDefaultIdentityClaimName ELSE @]
    IN  IF a1.ID = "" THEN [err |-> ErrNoID, reg |-> a1]
        ELSE IF a1.ClientID = "" THEN [err |-> ErrClientID, reg |-> a1]
        ELSE IF a1.AuthorityType = AuthorityTypeOIDC THEN [err |-> NoErr, reg |-> a2]
        ELSE [err |-> ErrUnknownType(a1.AuthorityType), reg |-> a1]

\* Variant: a key that is already in the map keeps its value.
RegisterInsert_KeepsOld(auth, id, p) ==
    [k \in DOMAIN auth \cup {id} |-> IF k \in DOMAIN auth THEN auth[k] ELSE p]

\* Lines 150-154: r.authorities[authority.ID] = authority.
RegisterInsert(auth, id, p) ==
    [k \in DOMAIN auth \cup {id} |-> IF k = id THEN p ELSE auth[k]]

\* Variant: an ID that is already a key keeps its registration.
RegisterMap_KeepsFirst(auth, res, p) ==
    IF res.err = NoErr /\ res.reg.ID \notin DOMAIN auth
    THEN RegisterInsert(auth, res.reg.ID, p)
    ELSE auth

\* Variant: a registration that has an ID is stored even when a later check
\* rejected it.
RegisterMap_StoresRejected(auth, res, p) ==
    IF res.reg.ID # "" THEN RegisterInsert(auth, res.reg.ID, p) ELSE auth

\* The map after Register(p) whose checks gave res.
RegisterMap(auth, res, p) ==
    IF res.err = NoErr THEN RegisterInsert(auth, res.reg.ID, p) ELSE auth

----------------------------------------------------------------------------
(* Registry.Get, Registry.Lookup, Registry.Default *)

GetOp(auth, authorityID) ==
    IF authorityID = "" THEN [registration |-> 0, ok |-> FALSE]
    ELSE IF authorityID \in DOMAIN auth
         THEN [registration |-> auth[authorityID], ok |-> TRUE]
         ELSE [registration |-> 0, ok |-> FALSE]

\* Lines 167-182: the record built from the static fields.
StaticDetails(rg, p) ==
    [ID |-> rg[p].ID, Name |-> rg[p].Name, AuthorityType |-> rg[p].AuthorityType,
     ClientID |-> rg[p].ClientID, ClientSecret |-> rg[p].ClientSecret,
     Insecure |-> rg[p].Insecure,
     Scopes |-> rg[p].Scopes, ResponseType |-> rg[p].ResponseType,
     CodeChallengeMethod |-> rg[p].CodeChallengeMethod,
     Registration |-> p,
     ready |-> FALSE, AuthorizationEndpoint |-> "", validationKeys |-> ""]

\* Lines 185-189: the dynamic fields, read under the registration's lock.
FillDynamic(details, dyn) ==
    IF dyn.ready
    THEN [details EXCEPT !.ready = dyn.ready,
                         !.AuthorizationEndpoint = dyn.authorizationEndpoint,
                         !.validationKeys = dyn.validationKeys]
    ELSE [details EXCEPT !.ready = dyn.ready]

\* Variant: an unknown ID gives nil Details and a nil error.
LookupOp_NoError(auth, rg, dyn, authorityID) ==
    LET g == GetOp(auth, authorityID)
    IN  IF ~g.ok THEN [details |-> NilDetails, err |-> NoErr]
        ELSE [details |-> FillDynamic(StaticDetails(rg, g.registration),
                                      dyn[g.registration]),
              err |-> NoErr]

\* Lines 159-193: Get, the error for an unknown ID, or the Details.
LookupOp(auth, rg, dyn, authorityID) ==
    LET g == GetOp(auth, authorityID)
    IN  IF ~g.ok THEN [details |-> NilDetails, err |-> ErrUnknownID(authorityID)]
        ELSE [details |-> FillDynamic(StaticDetails(rg, g.registration),
                                      dyn[g.registration]),
              err |-> NoErr]

DefaultOp(auth, rg, dyn, dflt) == LookupOp(auth, rg, dyn, dflt).details

----------------------------------------------------------------------------
(* NewRegistry *)

\* Variant: only an entry Register() rejected is skipped.
Skipped_IgnoresValidate(validateErr, registerErr) == registerErr # NoErr

\* Lines 79-86: whether the loop skips the entry.
Skipped(validateErr, registerErr) == validateErr # NoErr \/ registerErr # NoErr

\* Variant: a later entry flagged Default replaces the candidate.
Elect_LastFlagWins(cand, rg, p) ==
    IF rg[p].Default \/ cand = 0 THEN p ELSE cand

\* Lines 87-96: the default candidate after entry p was registered.
Elect(cand, rg, p) ==
    IF rg[p].Default \/ cand = 0
    THEN IF cand = 0 \/ ~rg[cand].Default THEN p ELSE cand
    ELSE cand

\* Variant: the candidate is promoted whether or not it is flagged Default.
ElectedID_PromotesCandidate(cand, rg, dflt) ==
    IF cand # 0 THEN rg[cand].ID ELSE dflt

\* Lines 103-110: the defaultID the candidate gives.
ElectedID(cand, rg, dflt) ==
    IF cand # 0 /\ rg[cand].Default THEN rg[cand].ID ELSE dflt

\* Lines 43-62: read and parse the conf, make the empty registry.
NewRegistryStart ==
    /\ pc = "start"
    /\ IF confFile.status = "readerr"
       THEN /\ pc' = "returned" /\ nrErr' = ErrReadFile
            /\ UNCHANGED <<regs, orig, dynamic, idx>>
       ELSE IF confFile.status = "parseerr"
       THEN /\ pc' = "returned" /\ nrErr' = ErrUnmarshal
            /\ UNCHANGED <<regs, orig, dynamic, idx>>
       ELSE /\ pc' = "loop"
            /\ regs' = confFile.entries
            /\ orig' = confFile.entries
            /\ dynamic' = [i \in 1..Len(confFile.entries) |-> NotReady]
            /\ idx' = 1
            /\ UNCHANGED nrErr
    /\ UNCHANGED <<confFile, authorities, defaultID, defaultAuthority, launched, last>>
    /\ UNCHANGED goVars

\* Lines 65-101: one iteration of the loop.
NewRegistryEntry ==
    /\ pc = "loop"
    /\ idx <= Len(regs)
    /\ LET validateErr == Validate(regs[idx])
           res == RegisterFields(regs[idx])
           rg == [regs EXCEPT ![idx] = res.reg]
       IN  /\ regs' = rg
           /\ authorities' = RegisterMap(authorities, res, idx)
           /\ IF Skipped(validateErr, res.err)
              THEN UNCHANGED <<defaultAuthority, launched>>
              ELSE /\ defaultAuthority' = Elect(defaultAuthority, rg, idx)
                   /\ launched' = launched \cup {idx}
    /\ idx' = idx + 1
    /\ UNCHANGED <<confFile, orig, dynamic, defaultID, pc, nrErr, last>>
    /\ UNCHANGED goVars

\* Lines 103-112: fix defaultID and return the registry.
NewRegistryReturn ==
    /\ pc = "loop"
    /\ idx > Len(regs)
    /\ defaultID' = ElectedID(defaultAuthority, regs, defaultID)
    /\ pc' = "returned"
    /\ nrErr' = NoErr
    /\ UNCHANGED <<confFile, orig, regs, dynamic, authorities, defaultAuthority,
                   idx, launched, last>>
    /\ UNCHANGED goVars

----------------------------------------------------------------------------
(* The discovery task of a registration, as one step under its lock *)

DiscoveryComplete(p) ==
    /\ p \in launched
    /\ ~dynamic[p].ready
    /\ dynamic' = [dynamic EXCEPT ![p] =
                     [ready |-> TRUE, authorizationEndpoint |-> "ep",
                      validationKeys |-> "keys"]]
    /\ UNCHANGED <<confFile, orig, regs, authorities, defaultID,
                   defaultAuthority, idx, pc, nrErr, launched, last>>
    /\ UNCHANGED goVars

----------------------------------------------------------------------------
(* Calls on the returned registry by its one owner *)

Returned == pc = "returned" /\ nrErr = NoErr

Get(authorityID) ==
    /\ Returned
    /\ last' = [op |-> "Get", id |-> authorityID,
                get |-> GetOp(authorities, authorityID)]
    /\ UNCHANGED <<confFile, orig, regs, dynamic, authorities, defaultID,
                   defaultAuthority, idx, pc, nrErr, launched>>
    /\ UNCHANGED goVars

Lookup(authorityID) ==
    /\ Returned
    /\ last' = [op |-> "Lookup", id |-> authorityID,
                res |-> LookupOp(authorities, regs, dynamic, authorityID)]
    /\ UNCHANGED <<confFile, orig, regs, dynamic, authorities, defaultID,
                   defaultAuthority, idx, pc, nrErr, launched>>
    /\ UNCHANGED goVars

Default ==
    /\ Returned
    /\ last' = [op |-> "Default", id |-> defaultID,
                details |-> DefaultOp(authorities, regs, dynamic, defaultID)]
    /\ UNCHANGED <<confFile, orig, regs, dynamic, authorities, defaultID,
                   defaultAuthority, idx, pc, nrErr, launched>>
    /\ UNCHANGED goVars

\* Variant: a registration flagged Default that Register() accepts becomes
\* the default.
Register_FlagSetsDefault(p, a) ==
    /\ Returned
    /\ p \in 1..(Len(regs) + 1)
    /\ p <= MaxObjects
    /\ IF p <= Len(regs) THEN a = orig[p] ELSE a \in RegisterEntries
    /\ LET before == IF p <= Len(regs) THEN regs[p] ELSE a
           res == RegisterFields(before)
       IN  /\ regs' = IF p <= Len(regs) THEN [regs EXCEPT ![p] = res.reg]
                      ELSE Append(regs, res.reg)
           /\ orig' = IF p <= Len(regs) THEN orig ELSE Append(orig, a)
           /\ dynamic' = IF p <= Len(regs) THEN dynamic ELSE Append(dynamic, NotReady)
           /\ authorities' = RegisterMap(authorities, res, p)
           /\ defaultID' = IF res.err = NoErr /\ res.reg.Default
                           THEN res.reg.ID ELSE defaultID
           /\ last' = [op |-> "Register", p |-> p, err |-> res.err]
    /\ UNCHANGED <<confFile, defaultAuthority, idx, pc, nrErr, launched>>
    /\ UNCHANGED goVars

\* Register(authority) by the owner of the registry: p is the pointer
\* passed, either a registration made for this call from the values a or
\* one that was passed before.
Register(p, a) ==
    /\ Returned
    /\ p \in 1..(Len(regs) + 1)
    /\ p <= MaxObjects
    /\ IF p <= Len(regs) THEN a = orig[p] ELSE a \in RegisterEntries
    /\ LET before == IF p <= Len(regs) THEN regs[p] ELSE a
           res == RegisterFields(before)
       IN  /\ regs' = IF p <= Len(regs) THEN [regs EXCEPT ![p] = res.reg]
                      ELSE Append(regs, res.reg)
           /\ orig' = IF p <= Len(regs) THEN orig ELSE Append(orig, a)
           /\ dynamic' = IF p <= Len(regs) THEN dynamic ELSE Append(dynamic, NotReady)
           /\ authorities' = RegisterMap(authorities, res, p)
           /\ last' = [op |-> "Register", p |-> p, err |-> res.err]
    /\ UNCHANGED <<confFile, defaultID, defaultAuthority, idx, pc, nrErr, launched>>
    /\ UNCHANGED goVars

----------------------------------------------------------------------------
(* Loading a registration conf *)

Unlocked == [writer |-> 0, locked |-> FALSE, readers |-> {}]

\* The one-owner views run no goroutine besides the owner.
NoGoroutines ==
    /\ rmutex = Unlocked
    /\ amutex = <<>>
    /\ tpc = <<>>
    /\ tloc = <<>>
    /\ dpc = <<>>

EmptyMap == [k \in {} |-> 0]

InitRegistry ==
    /\ orig = <<>>
    /\ regs = <<>>
    /\ dynamic = <<>>
    /\ authorities = EmptyMap
    /\ defaultID = ""
    /\ defaultAuthority = 0
    /\ idx = 0
    /\ pc = "start"
    /\ nrErr = NoErr
    /\ launched = {}
    /\ last = [op |-> "none"]
    /\ NoGoroutines

Init ==
    /\ confFile \in
         {[status |-> s, entries |-> <<>>] : s \in {"nopath", "readerr", "parseerr"}}
         \cup {[status |-> "ok", entries |-> es] : es \in SeqsUpTo(LoadEntries, MaxEntries)}
    /\ InitRegistry

Next ==
    \/ NewRegistryStart
    \/ NewRegistryEntry
    \/ NewRegistryReturn
    \/ \E p \in 1..Len(regs) : DiscoveryComplete(p)
    \/ \E id \in LookupIDs : Lookup(id)
    \/ Default

Spec == Init /\ [][Next]_vars

----------------------------------------------------------------------------
(* Register, Get, Lookup and Default on a registry made without a conf *)

RegInit ==
    /\ confFile = [status |-> "nopath", entries |-> <<>>]
    /\ orig = <<>>
    /\ regs = <<>>
    /\ dynamic = <<>>
    /\ authorities = EmptyMap
    /\ defaultID = ""
    /\ defaultAuthority = 0
    /\ idx = 1
    /\ pc = "returned"
    /\ nrErr = NoErr
    /\ launched = {}
    /\ last = [op |-> "none"]
    /\ NoGoroutines

RegNext ==
    \/ \E p \in 1..MaxObjects, a \in RegisterEntries : Register(p, a)
    \/ \E id \in LookupIDs : Get(id)
    \/ \E id \in LookupIDs : Lookup(id)
    \/ Default

RegSpec == RegInit /\ [][RegNext]_vars

----------------------------------------------------------------------------
(* Register, Get, Lookup and Default on a registry loaded from a conf *)

\* The conf leaves room for the registrations callers pass afterwards.
LoadedInit ==
    /\ confFile \in
         {[status |-> "ok", entries |-> es] : es \in SeqsUpTo(LoadEntries, MaxObjects)}
    /\ InitRegistry

LoadedNext ==
    \/ NewRegistryStart
    \/ NewRegistryEntry
    \/ NewRegistryReturn
    \/ \E p \in 1..MaxObjects :
           \E a \in (IF p <= Len(regs) THEN {orig[p]} ELSE RegisterEntries) :
               Register(p, a)
    \/ \E id \in LookupIDs : Get(id)
    \/ \E id \in LookupIDs : Lookup(id)
    \/ Default

LoadedSpec == LoadedInit /\ [][LoadedNext]_vars

----------------------------------------------------------------------------
(* sync.RWMutex, as Registry.mutex and AuthorityRegistration.mutex use it *)

\* Variant: RLock does not wait for a writer.
CanRLock_IgnoresWriter(m) == TRUE

\* RLock returns when no writer holds the mutex or waits for it.
CanRLock(m) == m.writer = 0

RLock(m, t) == [m EXCEPT !.readers = @ \cup {t}]

RUnlock(m, t) == [m EXCEPT !.readers = @ \ {t}]

\* Lock first shuts out later readers and writers ...
CanLockAnnounce(m) == m.writer = 0

LockAnnounce(m, t) == [m EXCEPT !.writer = t]

\* ... and returns when the readers that were inside have left.
CanLockAcquire(m, t) == m.writer = t /\ ~m.locked /\ m.readers = {}

LockAcquire(m, t) == [m EXCEPT !.locked = TRUE]

Unlock(m, t) == [m EXCEPT !.writer = 0, !.locked = FALSE]

----------------------------------------------------------------------------
(* Goroutines calling Lookup, Get, Default and Register concurrently *)

Clients == 1..NumClients

\* The discovery task of registration p, as a holder of mutexes.
Task(p) == 0 - p

ClientIDs == {"", "a", "b"}

NoCall == [op |-> "none", id |-> "", p |-> 0, registration |-> 0, ok |-> FALSE,
           details |-> NilDetails, err |-> NoErr]

SetPC(t, l) == tpc' = [tpc EXCEPT ![t] = l]

\* Lookup(ctx, authorityID) is called: line 160 calls Get.
CallLookup(t, authorityID) ==
    /\ tpc[t] = "idle"
    /\ SetPC(t, "Get")
    /\ tloc' = [tloc EXCEPT ![t] = [NoCall EXCEPT !.op = "Lookup", !.id = authorityID]]
    /\ UNCHANGED <<regs, dynamic, authorities, defaultID, rmutex, amutex, dpc>>
    /\ UNCHANGED ownerVars

\* Get(ctx, authorityID) is called.
CallGet(t, authorityID) ==
    /\ tpc[t] = "idle"
    /\ SetPC(t, "Get")
    /\ tloc' = [tloc EXCEPT ![t] = [NoCall EXCEPT !.op = "Get", !.id = authorityID]]
    /\ UNCHANGED <<regs, dynamic, authorities, defaultID, rmutex, amutex, dpc>>
    /\ UNCHANGED ownerVars

\* Default(ctx) is called: line 211 reads r.defaultID and calls Lookup.
CallDefault(t) ==
    /\ tpc[t] = "idle"
    /\ SetPC(t, "Get")
    /\ tloc' = [tloc EXCEPT ![t] = [NoCall EXCEPT !.op = "Default", !.id = defaultID]]
    /\ UNCHANGED <<regs, dynamic, authorities, defaultID, rmutex, amutex, dpc>>
    /\ UNCHANGED ownerVars

\* Lines 197-199: Get with an empty ID returns nil, false without touching
\* the map.
GetNoID(t) ==
    /\ tpc[t] = "Get"
    /\ tloc[t].id = ""
    /\ SetPC(t, IF tloc[t].op = "Get" THEN "returned" ELSE "GotRegistration")
    /\ UNCHANGED <<regs, dynamic, authorities, defaultID, rmutex, amutex, tloc, dpc>>
    /\ UNCHANGED ownerVars

\* Line 202: r.mutex.RLock().
GetRLock(t) ==
    /\ tpc[t] = "Get"
    /\ tloc[t].id # ""
    /\ CanRLock(rmutex)
    /\ rmutex' = RLock(rmutex, t)
    /\ SetPC(t, "GetRead")
    /\ UNCHANGED <<regs, dynamic, authorities, defaultID, amutex, tloc, dpc>>
    /\ UNCHANGED ownerVars

\* Line 203: registration, ok := r.authorities[authorityID].
GetRead(t) ==
    /\ tpc[t] = "GetRead"
    /\ LET g == GetOp(authorities, tloc[t].id)
       IN  tloc' = [tloc EXCEPT ![t].registration = g.registration, ![t].ok = g.ok]
    /\ SetPC(t, "GetRUnlock")
    /\ UNCHANGED <<regs, dynamic, authorities, defaultID, rmutex, amutex, dpc>>
    /\ UNCHANGED ownerVars

\* Variant: Get returns with the read lock of the registry still held.
GetRUnlock_KeepsLock(t) ==
    /\ tpc[t] = "GetRUnlock"
    /\ SetPC(t, IF tloc[t].op = "Get" THEN "returned" ELSE "GotRegistration")
    /\ UNCHANGED <<regs, dynamic, authorities, defaultID, rmutex, amutex, tloc, dpc>>
    /\ UNCHANGED ownerVars

\* Lines 204-206: r.mutex.RUnlock(); return registration, ok.
GetRUnlock(t) ==
    /\ tpc[t] = "GetRUnlock"
    /\ rmutex' = RUnlock(rmutex, t)
    /\ SetPC(t, IF tloc[t].op = "Get" THEN "returned" ELSE "GotRegistration")
    /\ UNCHANGED <<regs, dynamic, authorities, defaultID, amutex, tloc, dpc>>
    /\ UNCHANGED ownerVars

\* Lines 161-182: the error for an unknown ID (which Default drops, line
\* 211), or the Details record with the static fields.
LookupDetails(t) ==
    /\ tpc[t] = "GotRegistration"
    /\ IF ~tloc[t].ok
       THEN /\ SetPC(t, "returned")
            /\ tloc' = [tloc EXCEPT ![t].err =
                          IF tloc[t].op = "Lookup" THEN ErrUnknownID(tloc[t].id)
                          ELSE NoErr]
       ELSE /\ SetPC(t, "RegRLock")
            /\ tloc' = [tloc EXCEPT ![t].details =
                          StaticDetails(regs, tloc[t].registration)]
    /\ UNCHANGED <<regs, dynamic, authorities, defaultID, rmutex, amutex, dpc>>
    /\ UNCHANGED ownerVars

\* Variant: Lookup waits until discovery has made the registration ready.
LookupRLock_WaitsForReady(t) ==
    /\ tpc[t] = "RegRLock"
    /\ CanRLock(amutex[tloc[t].registration])
    /\ dynamic[tloc[t].registration].ready
    /\ amutex' = [amutex EXCEPT ![tloc[t].registration] = RLock(@, t)]
    /\ SetPC(t, "ReadReady")
    /\ UNCHANGED <<regs, dynamic, authorities, defaultID, rmutex, tloc, dpc>>
    /\ UNCHANGED ownerVars

\* Line 183: registration.mutex.RLock().
LookupRLock(t) ==
    /\ tpc[t] = "RegRLock"
    /\ CanRLock(amutex[tloc[t].registration])
    /\ amutex' = [amutex EXCEPT ![tloc[t].registration] = RLock(@, t)]
    /\ SetPC(t, "ReadReady")
    /\ UNCHANGED <<regs, dynamic, authorities, defaultID, rmutex, tloc, dpc>>
    /\ UNCHANGED ownerVars

\* Line 185: details.ready = registration.ready.
LookupReadReady(t) ==
    /\ tpc[t] = "ReadReady"
    /\ tloc' = [tloc EXCEPT ![t].details.ready = dynamic[tloc[t].registration].ready]
    /\ SetPC(t, "TestReady")
    /\ UNCHANGED <<regs, dynamic, authorities, defaultID, rmutex, amutex, dpc>>
    /\ UNCHANGED ownerVars

\* Line 186: if registration.ready.
LookupTestReady(t) ==
    /\ tpc[t] = "TestReady"
    /\ SetPC(t, IF dynamic[tloc[t].registration].ready
                THEN "ReadEndpoint" ELSE "RegRUnlock")
    /\ UNCHANGED <<regs, dynamic, authorities, defaultID, rmutex, amutex, tloc, dpc>>
    /\ UNCHANGED ownerVars

\* Line 187: details.AuthorizationEndpoint = registration.authorizationEndpoint.
LookupReadEndpoint(t) ==
    /\ tpc[t] = "ReadEndpoint"
    /\ tloc' = [tloc EXCEPT ![t].details.AuthorizationEndpoint =
                  dynamic[tloc[t].registration].authorizationEndpoint]
    /\ SetPC(t, "ReadKeys")
    /\ UNCHANGED <<regs, dynamic, authorities, defaultID, rmutex, amutex, dpc>>
    /\ UNCHANGED ownerVars

\* Line 188: details.validationKeys = registration.validationKeys.
LookupReadKeys(t) ==
    /\ tpc[t] = "ReadKeys"
    /\ tloc' = [tloc EXCEPT ![t].details.validationKeys =
                  dynamic[tloc[t].registration].validationKeys]
    /\ SetPC(t, "RegRUnlock")
    /\ UNCHANGED <<regs, dynamic, authorities, defaultID, rmutex, amutex, dpc>>
    /\ UNCHANGED ownerVars

\* Lines 190-192: registration.mutex.RUnlock(); return details, nil.
LookupRUnlock(t) ==
    /\ tpc[t] = "RegRUnlock"
    /\ amutex' = [amutex EXCEPT ![tloc[t].registration] = RUnlock(@, t)]
    /\ SetPC(t, "returned")
    /\ UNCHANGED <<regs, dynamic, authorities, defaultID, rmutex, tloc, dpc>>
    /\ UNCHANGED ownerVars

\* Register(authority) is called with pointer p: lines 118-148 on the
\* passed object, outside every lock.
CallRegister(t, p) ==
    /\ tpc[t] = "idle"
    /\ p \in 1..Len(regs)
    /\ LET res == RegisterFields(regs[p])
       IN  /\ regs' = [regs EXCEPT ![p] = res.reg]
           /\ tloc' = [tloc EXCEPT ![t] =
                         [NoCall EXCEPT !.op = "Register", !.p = p, !.err = res.err]]
           /\ SetPC(t, IF res.err = NoErr THEN "RegisterLock" ELSE "returned")
    /\ UNCHANGED <<dynamic, authorities, defaultID, rmutex, amutex, dpc>>
    /\ UNCHANGED ownerVars

\* Line 150: r.mutex.Lock(), until later readers and writers are shut out.
RegisterLock(t) ==
    /\ tpc[t] = "RegisterLock"
    /\ CanLockAnnounce(rmutex)
    /\ rmutex' = LockAnnounce(rmutex, t)
    /\ SetPC(t, "RegisterLocking")
    /\ UNCHANGED <<regs, dynamic, authorities, defaultID, amutex, tloc, dpc>>
    /\ UNCHANGED ownerVars

\* Line 150: r.mutex.Lock() returns.
RegisterLocked(t) ==
    /\ tpc[t] = "RegisterLocking"
    /\ CanLockAcquire(rmutex, t)
    /\ rmutex' = LockAcquire(rmutex, t)
    /\ SetPC(t, "RegisterWrite")
    /\ UNCHANGED <<regs, dynamic, authorities, defaultID, amutex, tloc, dpc>>
    /\ UNCHANGED ownerVars

\* Variant: storing a registration puts its dynamic fields back to not ready.
RegisterWrite_ResetsDynamic(t) ==
    /\ tpc[t] = "RegisterWrite"
    /\ authorities' = RegisterInsert(authorities, regs[tloc[t].p].ID, tloc[t].p)
    /\ dynamic' = [dynamic EXCEPT ![tloc[t].p] = NotReady]
    /\ SetPC(t, "RegisterUnlock")
    /\ UNCHANGED <<regs, defaultID, rmutex, amutex, tloc, dpc>>
    /\ UNCHANGED ownerVars

\* Line 152: r.authorities[authority.ID] = authority.
RegisterWrite(t) ==
    /\ tpc[t] = "RegisterWrite"
    /\ authorities' = RegisterInsert(authorities, regs[tloc[t].p].ID, tloc[t].p)
    /\ SetPC(t, "RegisterUnlock")
    /\ UNCHANGED <<regs, dynamic, defaultID, rmutex, amutex, tloc, dpc>>
    /\ UNCHANGED ownerVars

\* Lines 151, 154: the deferred r.mutex.Unlock(); return nil.
RegisterUnlock(t) ==
    /\ tpc[t] = "RegisterUnlock"
    /\ rmutex' = Unlock(rmutex, t)
    /\ SetPC(t, "returned")
    /\ UNCHANGED <<regs, dynamic, authorities, defaultID, amutex, tloc, dpc>>
    /\ UNCHANGED ownerVars

\* The caller has taken the result; the goroutine is free for its next call.
Finish(t) ==
    /\ tpc[t] = "returned"
    /\ SetPC(t, "idle")
    /\ tloc' = [tloc EXCEPT ![t] = NoCall]
    /\ UNCHANGED <<regs, dynamic, authorities, defaultID, rmutex, amutex, dpc>>
    /\ UNCHANGED ownerVars

----------------------------------------------------------------------------
(* The discovery task of a registration: network calls outside every lock,
   then the three dynamic fields written under the registration's mutex *)

SetDPC(p, l) == dpc' = [dpc EXCEPT ![p] = l]

\* Discovery fails for good: the registration stays not ready.
DiscoveryFail(p) ==
    /\ dpc[p] = "running"
    /\ SetDPC(p, "failed")
    /\ UNCHANGED <<regs, dynamic, authorities, defaultID, rmutex, amutex, tpc, tloc>>
    /\ UNCHANGED ownerVars

\* The network calls succeeded: mutex.Lock(), shutting out later readers.
DiscoveryLock(p) ==
    /\ dpc[p] = "running"
    /\ CanLockAnnounce(amutex[p])
    /\ amutex' = [amutex EXCEPT ![p] = LockAnnounce(@, Task(p))]
    /\ SetDPC(p, "locking")
    /\ UNCHANGED <<regs, dynamic, authorities, defaultID, rmutex, tpc, tloc>>
    /\ UNCHANGED ownerVars

\* mutex.Lock() returns.
DiscoveryLocked(p) ==
    /\ dpc[p] = "locking"
    /\ CanLockAcquire(amutex[p], Task(p))
    /\ amutex' = [amutex EXCEPT ![p] = LockAcquire(@, Task(p))]
    /\ SetDPC(p, "writeReady")
    /\ UNCHANGED <<regs, dynamic, authorities, defaultID, rmutex, tpc, tloc>>
    /\ UNCHANGED ownerVars

DiscoveryWriteReady(p) ==
    /\ dpc[p] = "writeReady"
    /\ dynamic' = [dynamic EXCEPT ![p].ready = TRUE]
    /\ SetDPC(p, "writeEndpoint")
    /\ UNCHANGED <<regs, authorities, defaultID, rmutex, amutex, tpc, tloc>>
    /\ UNCHANGED ownerVars

DiscoveryWriteEndpoint(p) ==
    /\ dpc[p] = "writeEndpoint"
    /\ dynamic' = [dynamic EXCEPT ![p].authorizationEndpoint = "ep"]
    /\ SetDPC(p, "writeKeys")
    /\ UNCHANGED <<regs, authorities, defaultID, rmutex, amutex, tpc, tloc>>
    /\ UNCHANGED ownerVars

DiscoveryWriteKeys(p) ==
    /\ dpc[p] = "writeKeys"
    /\ dynamic' = [dynamic EXCEPT ![p].validationKeys = "keys"]
    /\ SetDPC(p, "unlock")
    /\ UNCHANGED <<regs, authorities, defaultID, rmutex, amutex, tpc, tloc>>
    /\ UNCHANGED ownerVars

DiscoveryUnlock(p) ==
    /\ dpc[p] = "unlock"
    /\ amutex' = [amutex EXCEPT ![p] = Unlock(@, Task(p))]
    /\ SetDPC(p, "done")
    /\ UNCHANGED <<regs, dynamic, authorities, defaultID, rmutex, tpc, tloc>>
    /\ UNCHANGED ownerVars

----------------------------------------------------------------------------
(* The concurrent view: the registry NewRegistry returned for a conf with
   the one entry a, flagged Default, whose discovery task is running, and a
   second registration b that callers pass to Register *)

ConfA == Authority("a", "n", "c", AuthorityTypeOIDC, 4)
CallerB == Authority("b", "n", "c", AuthorityTypeOIDC, 2)

ConcRegistrations == <<RegisterFields(ConfA).reg, CallerB>>

ConcInit ==
    /\ confFile = [status |-> "ok", entries |-> <<ConfA>>]
    /\ orig = <<ConfA, CallerB>>
    /\ regs = ConcRegistrations
    /\ dynamic = <<NotReady, NotReady>>
    /\ authorities = RegisterInsert(EmptyMap, "a", 1)
    /\ defaultID = "a"
    /\ defaultAuthority = 1
    /\ idx = 2
    /\ pc = "returned"
    /\ nrErr = NoErr
    /\ launched = {1}
    /\ last = [op |-> "none"]
    /\ rmutex = Unlocked
    /\ amutex = <<Unlocked, Unlocked>>
    /\ tpc = [t \in Clients |-> "idle"]
    /\ tloc = [t \in Clients |-> NoCall]
    /\ dpc = <<"running", "idle">>

ClientCall(t) ==
    \/ \E id \in ClientIDs : CallLookup(t, id)
    \/ CallGet(t, "a")
    \/ CallDefault(t)
    \/ \E p \in 1..Len(regs) : CallRegister(t, p)

ClientStep(t) ==
    \/ GetNoID(t)
    \/ GetRLock(t)
    \/ GetRead(t)
    \/ GetRUnlock(t)
    \/ LookupDetails(t)
    \/ LookupRLock(t)
    \/ LookupReadReady(t)
    \/ LookupTestReady(t)
    \/ LookupReadEndpoint(t)
    \/ LookupReadKeys(t)
    \/ LookupRUnlock(t)
    \/ RegisterLock(t)
    \/ RegisterLocked(t)
    \/ RegisterWrite(t)
    \/ RegisterUnlock(t)
    \/ Finish(t)

DiscoveryStep(p) ==
    \/ DiscoveryLocked(p)
    \/ DiscoveryWriteReady(p)
    \/ DiscoveryWriteEndpoint(p)
    \/ DiscoveryWriteKeys(p)
    \/ DiscoveryUnlock(p)

ConcNext ==
    \/ \E t \in Clients : ClientCall(t)
    \/ \E t \in Clients : ClientStep(t)
    \/ \E p \in 1..Len(regs) : DiscoveryFail(p)
    \/ \E p \in 1..Len(regs) : DiscoveryLock(p)
    \/ \E p \in 1..Len(regs) : DiscoveryStep(p)

ConcSpec == ConcInit /\ [][ConcNext]_vars

----------------------------------------------------------------------------
(* Properties of loading a registration conf *)

Entries == 1..Len(orig)

\* The key Register() stores an entry under: its ID, or its Name when the
\* ID is empty.
EffectiveID(i) == IF orig[i].ID = "" THEN orig[i].Name ELSE orig[i].ID

ValidateOK(i) == Validate(orig[i]) = NoErr
RegisterOK(i) == RegisterFields(orig[i]).err = NoErr
Registered(i) == ValidateOK(i) /\ RegisterOK(i)

StoredAt(k, i) == k \in DOMAIN authorities /\ authorities[k] = i

DefaultEntries == {i \in Entries : Registered(i) /\ orig[i].Default}
FirstDefault == CHOOSE i \in DefaultEntries : \A j \in DefaultEntries : i <= j

\* The last entry in declaration order whose Register() stored it under k.
LastStored(k) ==
    CHOOSE i \in Entries :
        /\ RegisterOK(i) /\ EffectiveID(i) = k
        /\ \A j \in Entries : RegisterOK(j) /\ EffectiveID(j) = k => j <= i

\* C1: after NewRegistry returned, no entry whose Validate() failed is the
\* value stored in the authorities map under its ID (its Name when the ID
\* was empty), even when it passes Register().
C1_InvalidEntryNotStored ==
    Returned =>
        \A i \in Entries : ~ValidateOK(i) => ~StoredAt(EffectiveID(i), i)

\* C2 as stated: with two or more registered entries flagged Default,
\* defaultID is the ID of the first of them and Default() returns the
\* Details of that first entry, never of a later one.
C2_DefaultIsFirstFlaggedEntry ==
    (Returned /\ Cardinality(DefaultEntries) >= 2) =>
        /\ defaultID = regs[FirstDefault].ID
        /\ last.op = "Default" =>
               /\ last.details # NilDetails
               /\ last.details.Registration = FirstDefault

\* C2 amended: with two or more registered entries flagged Default,
\* defaultID is the ID of the first of them, and Default() returns the
\* Details of the registration the map holds under that ID: the last entry
\* that Register() stored under it, which is the first flagged entry when no
\* later entry was stored under the same ID.
C2_DefaultIsStoredUnderFirstFlaggedID ==
    (Returned /\ Cardinality(DefaultEntries) >= 2) =>
        /\ defaultID = regs[FirstDefault].ID
        /\ defaultID = EffectiveID(FirstDefault)
        /\ last.op = "Default" =>
               /\ last.details # NilDetails
               /\ last.details.Registration = LastStored(defaultID)
               /\ last.details.ID = defaultID
               /\ (\A j \in Entries :
                       j > FirstDefault /\ RegisterOK(j)
                           => EffectiveID(j) # defaultID)
                  => last.details.Registration = FirstDefault

C2_Witness ==
    /\ Returned
    /\ Cardinality(DefaultEntries) >= 2
    /\ \E i \in DefaultEntries : EffectiveID(i) # defaultID
    /\ FirstDefault > 1
    /\ last.op = "Default"
    /\ last.details # NilDetails
    /\ last.details.Registration = FirstDefault

\* C3: when no loaded entry is flagged Default, defaultID is empty after
\* NewRegistry returned and Default() returns nil, however many entries
\* were registered.
C3_NoFlagNoDefault ==
    (Returned /\ \A i \in Entries : ~orig[i].Default) =>
        /\ defaultID = ""
        /\ last.op = "Default" => last.details = NilDetails

C3_Witness ==
    /\ Returned
    /\ \A i \in Entries : ~orig[i].Default
    /\ Cardinality({i \in Entries : Registered(i)}) >= 2
    /\ defaultAuthority # 0
    /\ last.op = "Default"

\* C8: for a readable, parseable conf NewRegistry returns a registry and no
\* error, and every entry that passes Validate() and Register() is in the
\* map under its effective ID unless a later entry with that ID replaced it.
C8_LoadNeverAborts ==
    (pc = "returned" /\ confFile.status \in {"nopath", "ok"}) =>
        /\ nrErr = NoErr
        /\ \A i \in Entries :
               Registered(i) =>
                   \/ StoredAt(EffectiveID(i), i)
                   \/ \E j \in Entries :
                          /\ j > i
                          /\ EffectiveID(j) = EffectiveID(i)
                          /\ StoredAt(EffectiveID(i), j)

C8_Witness ==
    /\ pc = "returned"
    /\ confFile.status = "ok"
    /\ Len(orig) = 3
    /\ ~Registered(1) /\ Registered(2) /\ ~RegisterOK(3)
    /\ StoredAt(EffectiveID(2), 2)

\* C9: NewRegistry launches discovery for exactly the entries whose
\* Register() returned no error, so that every registration in the map has
\* had discovery launched.
C9_DiscoveryForEveryRegistered ==
    Returned =>
        /\ \A i \in Entries : RegisterOK(i) <=> i \in launched
        /\ \A k \in DOMAIN authorities : authorities[k] \in launched

----------------------------------------------------------------------------
(* Properties of Register, Get and Lookup *)

Objects == 1..Len(regs)

\* The value Register() leaves in an optional field: the default when the
\* caller left it empty.
OrDefault(v, empty, dflt) == IF v = empty THEN dflt ELSE v

\* The static fields Lookup() copies, other than ID, equal the values the
\* registration was created with, after defaulting.
DetailsMatchInput(d, in) ==
    /\ d.Name = in.Name
    /\ d.AuthorityType = in.AuthorityType
    /\ d.ClientID = in.ClientID
    /\ d.ClientSecret = in.ClientSecret
    /\ d.Insecure = in.Insecure
    /\ d.Scopes = OrDefault(in.Scopes, <<>>, authorityDefaultScopes)
    /\ d.ResponseType = OrDefault(in.ResponseType, "", authorityDefaultResponseType)
    /\ d.CodeChallengeMethod = OrDefault(in.CodeChallengeMethod, "", authorityDefaultCodeChallengeMethod)

\* The last step was a Register() that used the ID k.
RegisterUsed(k) == last.op = "Register" /\ regs[last.p].ID = k

\* A successful Register(a) stores a under a.ID.
RegisterStores ==
    (last.op = "Register" /\ last.err = NoErr) =>
        StoredAt(regs[last.p].ID, last.p)

\* a stays stored under its ID while no Register uses that ID.
StaysStored ==
    \A p \in Objects :
        (StoredAt(regs[p].ID, p) /\ ~RegisterUsed(regs[p].ID)')
            => (regs'[p].ID = regs[p].ID /\ StoredAt(regs[p].ID, p)')

\* Get(a.ID) returns (a, true), a holding its IdentityClaimName or the default.
GetReturnsStored ==
    \A p \in Objects :
        (last.op = "Get" /\ StoredAt(last.id, p)) =>
            /\ last.get = [registration |-> p, ok |-> TRUE]
            /\ regs[p].ID = last.id
            /\ regs[p].IdentityClaimName =
                   OrDefault(orig[p].IdentityClaimName, "", authorityDefaultIdentityClaimName)

\* C10 as stated: Lookup(a.ID) returns Details whose static fields, ID among
\* them, equal the values a was passed to Register() with, the optional
\* ones after defaulting.
C10_LookupMatchesInput ==
    \A p \in Objects :
        (last.op = "Lookup" /\ StoredAt(last.id, p)) =>
            /\ last.res.err = NoErr
            /\ last.res.details.Registration = p
            /\ last.res.details.ID = orig[p].ID
            /\ DetailsMatchInput(last.res.details, orig[p])

\* Lookup(a.ID) returns Details whose ID is a's ID, or a's Name when a was
\* passed with an empty ID, and whose other static fields equal a's input.
LookupMatchesRegistered ==
    \A p \in Objects :
        (last.op = "Lookup" /\ StoredAt(last.id, p)) =>
            /\ last.res.err = NoErr
            /\ last.res.details.Registration = p
            /\ last.res.details.ID = last.id
            /\ last.res.details.ID = EffectiveID(p)
            /\ DetailsMatchInput(last.res.details, orig[p])

\* C10 amended: after a successful Register(a), and as long as no later
\* Register uses the same ID, Get(a.ID) returns (a, true) and Lookup(a.ID)
\* returns Details whose ID is a's input ID, or a's input Name when the
\* input ID was empty, and whose other static fields equal a's input values,
\* each of Scopes, ResponseType, CodeChallengeMethod and IdentityClaimName
\* holding its default when empty on input and its input value otherwise.
C10_RegisteredIsServed ==
    /\ [](RegisterStores /\ GetReturnsStored /\ LookupMatchesRegistered)
    /\ [][StaysStored]_vars

C10_Witness ==
    /\ last.op = "Lookup"
    /\ Len(regs) = 2
    /\ StoredAt(last.id, 1)
    /\ StoredAt(regs[2].ID, 2)
    /\ orig[1].ID = ""
    /\ orig[1].Scopes = <<>>
    /\ orig[1].ResponseType # ""
    /\ last.res.details.ID = "a"
    /\ last.res.details.Scopes = authorityDefaultScopes
    /\ last.res.details.ResponseType = orig[1].ResponseType

----------------------------------------------------------------------------
(* Properties of single Register, Get and Lookup calls *)

\* The step is a call of Register(); last'.p is the registration passed.
RegisterStep == last'.op = "Register"

\* The fields of the registration passed to Register(), as they are when
\* the call begins.
Passed == IF last'.p <= Len(regs) THEN regs[last'.p] ELSE orig'[last'.p]

\* The key a registration with these fields asks for.
KeyOf(a) == IF a.ID = "" THEN a.Name ELSE a.ID

\* The fields pass each of Register()'s three checks.
Acceptable(a) ==
    /\ KeyOf(a) # ""
    /\ a.ClientID # ""
    /\ a.AuthorityType = AuthorityTypeOIDC

Keys == DOMAIN authorities

\* C11: a Register() of an otherwise valid entry whose effective ID is
\* already a key of the map returns no error, leaves the set of keys as it
\* was, puts the passed entry under that key in place of the earlier one and
\* leaves the values under the other keys alone.
C11_SameIDReplaces ==
    [][(RegisterStep /\ Acceptable(Passed) /\ KeyOf(Passed) \in Keys) =>
          /\ last'.err = NoErr
          /\ Keys' = Keys
          /\ authorities'[KeyOf(Passed)] = last'.p
          /\ \A k \in Keys \ {KeyOf(Passed)} : authorities'[k] = authorities[k]]_vars

C11_Witness ==
    /\ last.op = "Register" /\ last.p = 2 /\ last.err = NoErr
    /\ Acceptable(orig[1]) /\ Acceptable(orig[2])
    /\ orig[1].ID = "a" /\ orig[2].ID = "" /\ orig[2].Name = "a"
    /\ Keys = {"a"}
    /\ authorities["a"] = 2

\* C12: Lookup(id) for an id that is not a key of the map, the empty id
\* included, returns nil Details and the unknown-authority error for that
\* id, Get(id) returns nil and not-found, and neither call changes the map
\* or a registration.
C12_UnknownIDNotFound ==
    [][/\ (last'.op = "Lookup" /\ last'.id \notin Keys) =>
              /\ last'.res.details = NilDetails
              /\ last'.res.err # NoErr
              /\ last'.res.err.kind = "unknown authority id"
              /\ last'.res.err.arg = last'.id
              /\ authorities' = authorities
              /\ regs' = regs
       /\ (last'.op = "Get" /\ last'.id \notin Keys) =>
              /\ last'.get.registration = 0
              /\ ~last'.get.ok
              /\ authorities' = authorities
              /\ regs' = regs]_vars

C12_Witness ==
    /\ last.op = "Lookup"
    /\ last.id = ""
    /\ Keys = {"a", "b"}
    /\ last.res.details = NilDetails
    /\ last.res.err = ErrUnknownID("")

\* C13: Register() of an entry with an empty ID, a Name, a ClientID and
\* the OIDC type returns no error, sets the entry's ID to its Name and
\* stores the entry under the key Name and under no other key.
C13_NameIsEffectiveID ==
    [][(/\ RegisterStep
        /\ Passed.ID = "" /\ Passed.Name # "" /\ Passed.ClientID # ""
        /\ Passed.AuthorityType = AuthorityTypeOIDC) =>
          /\ last'.err = NoErr
          /\ regs'[last'.p].ID = Passed.Name
          /\ regs'[last'.p].Name = Passed.Name
          /\ Passed.Name \in Keys'
          /\ authorities'[Passed.Name] = last'.p
          /\ \A k \in Keys' \ {Passed.Name} : authorities'[k] # last'.p]_vars

C13_Witness ==
    /\ last.op = "Register" /\ last.err = NoErr
    /\ orig[last.p].ID = "" /\ orig[last.p].Name = "a"
    /\ regs[last.p].ID = "a"
    /\ Keys = {"a", "b"}
    /\ authorities["a"] = last.p
    /\ authorities["b"] # last.p

\* The registration p is the value under no key of the map.
UnderNoKey(p) == \A k \in Keys : authorities[k] # p

\* C14: Register() of an entry with an empty ID and an empty Name returns
\* the identifier error whatever its ClientID, type and other fields are,
\* leaves the map as it was, and however often such an entry is passed it
\* is under no key of the map.
C14_NoIdentifierIsRejected ==
    /\ [][(RegisterStep /\ Passed.ID = "" /\ Passed.Name = "") =>
              /\ last'.err = ErrNoID
              /\ authorities' = authorities]_vars
    /\ [](\A p \in Objects :
              (orig[p].ID = "" /\ orig[p].Name = "") => UnderNoKey(p))

C14_Witness ==
    /\ last.op = "Register" /\ last.p = 2 /\ last.err = ErrNoID
    /\ orig[2].ID = "" /\ orig[2].Name = ""
    /\ orig[2].ClientID = "" /\ orig[2].AuthorityType # AuthorityTypeOIDC
    /\ Keys = {"a"}
    /\ UnderNoKey(2)

\* C16 as stated: Register() of an entry whose type is not the OIDC type
\* returns the unknown-type error naming that type, whatever the entry's
\* other fields are, and does not store the entry.
C16_UnsupportedTypeError ==
    [][(RegisterStep /\ Passed.AuthorityType # AuthorityTypeOIDC) =>
          /\ last'.err = ErrUnknownType(Passed.AuthorityType)
          /\ authorities' = authorities]_vars

\* C16 amended: Register() of an entry whose type is not the OIDC type
\* returns an error and does not store the entry, whatever its other fields
\* are; the error is the unknown-type error naming that type when the entry
\* has an ID or a Name and a ClientID, the identifier error when it has
\* neither ID nor Name, and the client_id error when it has an ID or a Name
\* but no ClientID.
C16_UnsupportedTypeIsRejected ==
    /\ [][(RegisterStep /\ Passed.AuthorityType # AuthorityTypeOIDC) =>
              /\ last'.err # NoErr
              /\ last'.err =
                     IF KeyOf(Passed) = "" THEN ErrNoID
                     ELSE IF Passed.ClientID = "" THEN ErrClientID
                     ELSE [kind |-> "unknown authority type",
                           arg |-> Passed.AuthorityType]
              /\ authorities' = authorities]_vars
    /\ [](\A p \in Objects :
              orig[p].AuthorityType # AuthorityTypeOIDC => UnderNoKey(p))

C16_Witness ==
    /\ last.op = "Register" /\ last.p = 2
    /\ orig[2].AuthorityType = "saml"
    /\ orig[2].ID = "" /\ orig[2].Name = "a" /\ orig[2].ClientID = "c"
    /\ last.err = [kind |-> "unknown authority type", arg |-> "saml"]
    /\ Keys = {"a"}
    /\ UnderNoKey(2)

\* C17: a Register() call changes nothing but the map: it leaves defaultID,
\* the launched discovery tasks, the dynamic fields and every registration
\* other than the passed one alone, and a call that returns an error also
\* leaves the map and every field of the passed registration, its ID
\* included, as they were before the call.
C17_RegisterOnlyInserts ==
    [][RegisterStep =>
          /\ defaultID' = defaultID
          /\ launched' = launched
          /\ \A q \in Objects : dynamic'[q] = dynamic[q]
          /\ \A q \in Objects \ {last'.p} : regs'[q] = regs[q]
          /\ last'.err # NoErr =>
                 /\ authorities' = authorities
                 /\ regs'[last'.p] = Passed]_vars

\* C19: after any sequence of Register() calls every key of the map is
\* non-empty and the registration stored under it has that key as its ID, a
\* ClientID, the OIDC type and non-empty Scopes, ResponseType,
\* CodeChallengeMethod and IdentityClaimName.
C19_StoredAreComplete ==
    \A k \in Keys :
        /\ k # ""
        /\ authorities[k] \in Objects
        /\ regs[authorities[k]].ID = k
        /\ regs[authorities[k]].ClientID # ""
        /\ regs[authorities[k]].AuthorityType = AuthorityTypeOIDC
        /\ Len(regs[authorities[k]].Scopes) > 0
        /\ regs[authorities[k]].ResponseType # ""
        /\ regs[authorities[k]].CodeChallengeMethod # ""
        /\ regs[authorities[k]].IdentityClaimName # ""

C19_Witness ==
    /\ Keys = {"a", "b"}
    /\ orig[authorities["a"]].ID = ""
    /\ orig[authorities["a"]].Scopes = <<>>
    /\ orig[authorities["a"]].IdentityClaimName = ""
    /\ orig[authorities["b"]].Scopes # <<>>
    /\ last.op = "Register"

----------------------------------------------------------------------------
(* Properties of a loaded registry that callers register with *)

\* The entries of the conf, as opposed to registrations passed later.
Loaded == 1..Len(confFile.entries)

\* C15: Register() of an entry with an empty ClientID returns an error
\* whatever its other fields are and leaves the map as it was, and such an
\* entry, whether NewRegistry read it from the conf or a caller passed it,
\* is under no key of the map during and after construction.
C15_NoClientIDIsRejected ==
    /\ [][(RegisterStep /\ Passed.ClientID = "") =>
              /\ last'.err # NoErr
              /\ authorities' = authorities]_vars
    /\ [](\A p \in Objects : orig[p].ClientID = "" => UnderNoKey(p))

C15_Witness ==
    /\ Returned
    /\ Loaded = {1, 2}
    /\ orig[1].ClientID # "" /\ orig[2].ClientID = ""
    /\ orig[1].ID = "b" /\ orig[2].ID = "b"
    /\ last.op = "Register" /\ last.p = 2 /\ last.err = ErrClientID
    /\ Keys = {"b"}
    /\ authorities["b"] = 1

\* The conf entries that passed Validate() and Register() and are flagged
\* Default, and the first of them.
LoadedDefaults == {i \in Loaded : Registered(i) /\ orig[i].Default}
FirstLoadedDefault == CHOOSE i \in LoadedDefaults : \A j \in LoadedDefaults : i <= j

\* The registrations other than p that Register() stores under the key k.
OthersUsing(k, p) ==
    {q \in Objects \ {p} : Acceptable(orig[q]) /\ KeyOf(orig[q]) = k}

\* C18 as stated: after NewRegistry returned, defaultID is empty or a key of
\* the map whose stored registration is flagged Default, and Default()
\* returns Details of a registration flagged Default only.
C18_DefaultIsFlagged ==
    Returned =>
        /\ \/ defaultID = ""
           \/ /\ defaultID \in Keys
              /\ regs[authorities[defaultID]].Default
        /\ (last.op = "Default" /\ last.details # NilDetails) =>
               regs[last.details.Registration].Default

\* C18 amended: after NewRegistry returned, defaultID is empty when no conf
\* entry that passed Validate() and Register() is flagged Default, and is
\* otherwise the effective ID of the first such entry and a key of the map;
\* Default() returns nil in the first case and the Details of whatever
\* registration the map holds under defaultID in the second, which is the
\* flagged entry itself when no other registration that Register() accepts
\* uses that ID.
C18_DefaultIDIsFirstFlaggedKey ==
    Returned =>
        /\ IF LoadedDefaults = {}
           THEN defaultID = ""
           ELSE /\ defaultID = EffectiveID(FirstLoadedDefault)
                /\ defaultID # ""
                /\ defaultID \in Keys
                /\ regs[authorities[defaultID]].ID = defaultID
                /\ OthersUsing(defaultID, FirstLoadedDefault) = {} =>
                       /\ authorities[defaultID] = FirstLoadedDefault
                       /\ regs[authorities[defaultID]].Default
        /\ last.op = "Default" =>
               IF defaultID = ""
               THEN last.details = NilDetails
               ELSE /\ last.details # NilDetails
                    /\ last.details.Registration = authorities[defaultID]
                    /\ last.details.ID = defaultID

C18_Witness ==
    /\ Returned
    /\ Loaded = {1}
    /\ LoadedDefaults = {1}
    /\ defaultID = "a"
    /\ authorities["a"] = 2
    /\ ~regs[2].Default
    /\ last.op = "Default"
    /\ last.details # NilDetails
    /\ last.details.Registration = 2

\* C20: once NewRegistry has returned no call changes defaultID, not even
\* a Register() of an entry flagged Default or of an entry with the
\* default's ID, and Get(), Lookup() and Default() leave the map and the
\* registrations as they were.
C20_DefaultIDIsFixed ==
    [][Returned =>
          /\ defaultID' = defaultID
          /\ last'.op \in {"Get", "Lookup", "Default"} =>
                 /\ authorities' = authorities
                 /\ regs' = regs]_vars

C20_Witness ==
    /\ Returned
    /\ Loaded = {1}
    /\ defaultID = "a"
    /\ last.op = "Register" /\ last.p = 2 /\ last.err = NoErr
    /\ orig[2].Default
    /\ regs[2].ID = "a"
    /\ authorities["a"] = 2

----------------------------------------------------------------------------
(* Properties of the concurrent view *)

\* The fairness the Go scheduler and sync.RWMutex give: a goroutine inside
\* a call keeps running, a reader that waits for a writer is admitted when
\* that writer unlocks, a waiting writer is admitted in its turn, and a
\* discovery task that has begun to lock finishes its writes.  Nothing forces
\* a caller to make another call or the network calls of discovery to end.
Fairness ==
    /\ \A t \in Clients : WF_vars(ClientStep(t))
    /\ \A t \in Clients : SF_vars(GetRLock(t))
    /\ \A t \in Clients : SF_vars(LookupRLock(t))
    /\ \A p \in DOMAIN ConcRegistrations : WF_vars(DiscoveryStep(p))

\* The goroutines that can keep a Lookup waiting: other Lookup calls,
\* Register calls, which write under the registry mutex, and discovery.
LookupNext ==
    \/ \E t \in Clients : \E id \in {"", "a"} : CallLookup(t, id)
    \/ \E t \in Clients : CallRegister(t, 1)
    \/ \E t \in Clients : ClientStep(t)
    \/ \E p \in 1..Len(regs) : DiscoveryFail(p)
    \/ \E p \in 1..Len(regs) : DiscoveryLock(p)
    \/ \E p \in 1..Len(regs) : DiscoveryStep(p)

FairLookupSpec == ConcInit /\ [][LookupNext]_vars /\ Fairness

NotReadyShape(d) ==
    ~d.ready /\ d.AuthorizationEndpoint = "" /\ d.validationKeys = ""

ReadyShape(d) ==
    d.ready /\ d.AuthorizationEndpoint = "ep" /\ d.validationKeys = "keys"

ReturnedDetails(t) ==
    /\ tpc[t] = "returned"
    /\ tloc[t].op \in {"Lookup", "Default"}
    /\ tloc[t].details # NilDetails

\* C4: whatever the interleaving of concurrent Lookup calls with the
\* discovery write, every Details returned is either not ready with empty
\* endpoint and keys, or ready with the endpoint and keys discovery wrote
\* (and then discovery has released the lock); none is a mixture.
C4_LookupNeverTorn ==
    \A t \in Clients :
        ReturnedDetails(t) =>
            \/ NotReadyShape(tloc[t].details)
            \/ /\ ReadyShape(tloc[t].details)
               /\ dpc[tloc[t].details.Registration] = "done"

C4_Witness ==
    \E t, u \in Clients :
        /\ ReturnedDetails(t) /\ ReturnedDetails(u)
        /\ tloc[t].op = "Lookup" /\ tloc[u].op = "Lookup"
        /\ tloc[t].details.Registration = 1
        /\ tloc[u].details.Registration = 1
        /\ NotReadyShape(tloc[t].details)
        /\ ReadyShape(tloc[u].details)

\* C5: a registration is not ready or ready; once its ready flag is true
\* it is true in every later state, whatever Register, Get, Lookup, Default
\* and discovery do, and a registration whose discovery failed stays not
\* ready.
C5_ReadyIsOneWay ==
    [][\A p \in 1..Len(regs) :
          /\ dynamic'[p].ready \in BOOLEAN
          /\ dynamic[p].ready => dynamic'[p].ready
          /\ dpc[p] = "failed" => (dpc'[p] = "failed" /\ ~dynamic'[p].ready)]_vars

C5_Witness ==
    \E t, u \in Clients :
        /\ dynamic[1].ready
        /\ tpc[t] = "RegisterUnlock" /\ tloc[t].p = 1
        /\ ReturnedDetails(u) /\ ReadyShape(tloc[u].details)

Holds(m, g) == g \in m.readers \/ m.writer = g

\* The positions at which a goroutine asks for a mutex.
LockPositions == {"Get", "RegRLock", "RegisterLock", "RegisterLocking"}

\* A goroutine inside a call that cannot take its next step.
BlockedClient(t) == tpc[t] \in LockPositions /\ ~ENABLED ClientStep(t)

BlockedTask(p) == dpc[p] = "locking" /\ ~ENABLED DiscoveryStep(p)

\* Some goroutine that is inside a call, or a discovery task inside its
\* locked section, can take a step.
SomeoneRuns ==
    \/ \E t \in Clients : tpc[t] # "idle" /\ ~BlockedClient(t)
    \/ \E p \in 1..Len(regs) :
           dpc[p] \notin {"idle", "running", "failed", "done"} /\ ~BlockedTask(p)

\* C6: no goroutine holds (or waits for) the registry mutex and a
\* registration mutex at once: Get has released the registry mutex when
\* Lookup locks the registration, Register holds the registry mutex only,
\* discovery holds its registration's mutex only; and no interleaving ends
\* in a deadlock: while a goroutine is blocked, another one inside a call
\* can run.
C6_LocksNotNestedNoDeadlock ==
    /\ \A t \in Clients :
           /\ ~(Holds(rmutex, t) /\ \E p \in 1..Len(regs) : Holds(amutex[p], t))
           /\ tpc[t] = "RegRLock" => ~Holds(rmutex, t)
           /\ tloc[t].op = "Register" => \A p \in 1..Len(regs) : ~Holds(amutex[p], t)
           /\ tpc[t] \in {"idle", "returned"} =>
                  /\ ~Holds(rmutex, t)
                  /\ \A p \in 1..Len(regs) : ~Holds(amutex[p], t)
    /\ \A p \in 1..Len(regs) : ~Holds(rmutex, Task(p))
    /\ ((\E t \in Clients : BlockedClient(t)) \/ (\E p \in 1..Len(regs) : BlockedTask(p)))
           => SomeoneRuns

C6_Witness ==
    \E t, u \in Clients :
        /\ tpc[t] = "RegRLock" /\ BlockedClient(t)
        /\ tpc[u] = "RegisterLocking" /\ ~BlockedClient(u)
        /\ dpc[1] = "writeEndpoint"

\* C7: under fair scheduling every Lookup of a registered ID returns, with
\* Details and a nil error, whether discovery is still running, has failed
\* or has finished.
C7_LookupReturns ==
    \A t \in Clients :
        (tpc[t] = "Get" /\ tloc[t].op = "Lookup" /\ tloc[t].id \in DOMAIN authorities)
            ~> (tpc[t] = "returned" /\ tloc[t].op = "Lookup"
                /\ tloc[t].err = NoErr /\ tloc[t].details # NilDetails)

C7_Witness ==
    \E t \in Clients :
        /\ tpc[t] = "returned" /\ tloc[t].op = "Lookup"
        /\ tloc[t].err = NoErr /\ tloc[t].details # NilDetails
        /\ NotReadyShape(tloc[t].details)
        /\ dpc[tloc[t].details.Registration] = "failed"

====
